---- MODULE Spec2Model ----
(***************************************************************************)
(* The orchestration loop of the build automator (src/__main__.py, _run)   *)
(* with the configuration snapshot it reloads (src/config_type.py).        *)
(*                                                                         *)
(* One pass of the `while True` body is split at the program points named  *)
(* by pc:                                                                  *)
(*   "reload"    lines 393-415   read the clock, reload the config, kill   *)
(*   "cleanup"   lines 417-428   svn cleanup when it is due                *)
(*   "update"    lines 430-434   svn update, svn info, watermark init      *)
(*   "logs"      lines 436-480   collect and scan logs, evaluate commands, *)
(*                               dump the logs into the build directory    *)
(*   "build"     lines 482-487   build_dump_logs_and_compact               *)
(*   "completed" lines 490-494   "build completed" cue, watermark advance  *)
(*   "wait"      lines 395-396   time.sleep(update interval)               *)
(*   "done"      lines 498-500   KeyboardInterrupt, _run has returned      *)
(* The environment is the remote repository (Commit), the clock, the       *)
(* config document on disk, the file system and the exit status of every   *)
(* external command.                                                       *)
(***************************************************************************)
EXTENDS Integers, Sequences, FiniteSets, TLC

\* ---------------------------------------------------------------- bounds

\* Highest revision the remote repository reaches.
MaxRev == 3

\* Latest clock value (seconds) at which a sleep may still end.
MaxTime == 15

\* ------------------------------------------------------ program constants

\* last_built_revision / last_cleanup_time before they are set.
Unset == -1

\* wait_time_in_seconds of the invalid-config backoff.
wait_time_in_seconds == 10

\* _BA_BuildExportConfig.max_num_relevant_logs default.
DefaultMaxNumRelevantLogs == 10

\* Upper limit (exclusive) accepted for max_num_relevant_logs.
MaxNumRelevantLogsLimit == 999

\* _BA_SVNConfig cleanup_timeout_in_seconds default, 1 * 60 * 60.
DefaultCleanupTimeout == 3600

\* _BA_SVNConfig _update_interval_in_seconds default.
DefaultUpdateInterval == 1

Max(a, b) == IF a >= b THEN a ELSE b
Min(a, b) == IF a <= b THEN a ELSE b

\* ------------------------------------------------------------------ texts

\* A text is a sequence of characters.

\* The log messages svn log returns: with the keywords below, a log with no
\* keyword, with either one, and with both.
LogTexts == {<<>>, <<"a">>, <<"b">>, <<"a", "b">>}

\* The keyword strings a config document can carry.
KeywordStrings == {<<"a">>, <<"b">>}

\* Mutant: a keyword is found only at the start of the text.
FindAtStart(text, sub) ==
    IF Len(sub) <= Len(text) /\ SubSeq(text, 1, Len(sub)) = sub THEN 0 ELSE -1

\* str.find: the lowest index at which sub occurs in text, -1 when it does not.
Find(text, sub) ==
    LET hits == {i \in 0..(Len(text) - Len(sub)) :
                    SubSeq(text, i + 1, i + Len(sub)) = sub}
    IN IF hits = {} THEN -1 ELSE CHOOSE i \in hits : \A j \in hits : i <= j

\* log_find_commands: the configured commands, in the order of all_commands,
\* that occur in the log.
all_commands(cfg) == <<cfg.make_dev_build, cfg.ignore_build>>

\* Mutant: the scan stops at the first command it finds.
log_find_first_command(cfg, log) ==
    LET found == SelectSeq(all_commands(cfg), LAMBDA command : Find(log, command) # -1)
    IN IF found = <<>> THEN <<>> ELSE <<Head(found)>>

log_find_commands(cfg, log) ==
    SelectSeq(all_commands(cfg), LAMBDA command : Find(log, command) # -1)

\* ----------------------------------------------------------------- config

\* The config documents config.toml can hold (the keys the loop reads).
DocMaxNumRelevantLogs == {0, 2}
DocUpdateIntervals == {5}
DocCleanupTimeouts == {10}
DocBuildTypes == {"Shipping"}

Documents ==
    [max_num_relevant_logs : DocMaxNumRelevantLogs,
     make_dev_build : KeywordStrings,
     ignore_build : KeywordStrings,
     build_type : DocBuildTypes,
     update_interval_in_seconds : DocUpdateIntervals,
     cleanup_timeout_in_seconds : DocCleanupTimeouts]

\* BuildAutomatorConfig(): the defaults, which do not validate (the project
\* path is empty, so no .uproject file is found).
EmptyConfig ==
    [valid |-> FALSE,
     build_type |-> "Shipping",
     make_dev_build |-> <<"#", "d">>,
     ignore_build |-> <<"#", "i">>,
     max_num_relevant_logs |-> DefaultMaxNumRelevantLogs,
     document_max_num_relevant_logs |-> Unset,
     update_interval_in_seconds |-> DefaultUpdateInterval,
     cleanup_timeout_in_seconds |-> DefaultCleanupTimeout]

\* _BA_SVNConfig.update_interval_in_seconds setter.
SetUpdateInterval(value) == IF value <= 0 THEN 1 ELSE value

\* _BA_BuildExportConfig.read_config: a falsy or too large value keeps the default.
ReadMaxNumRelevantLogs(value) ==
    IF value # 0 /\ value < MaxNumRelevantLogsLimit
    THEN value ELSE DefaultMaxNumRelevantLogs

\* _BA_SVNConfig.read_config of cleanup_timeout_in_seconds.
ReadCleanupTimeout(value) ==
    IF value > 1 THEN value ELSE DefaultCleanupTimeout

\* BuildAutomatorConfig(document): every section read from the document;
\* ok says whether the paths of the document validate (is_valid()).
\* document_max_num_relevant_logs records what the document configured
\* (Unset when the snapshot was not read from a document).
ReadConfig(doc, ok) ==
    [valid |-> ok,
     build_type |-> doc.build_type,
     make_dev_build |-> doc.make_dev_build,
     ignore_build |-> doc.ignore_build,
     max_num_relevant_logs |-> ReadMaxNumRelevantLogs(doc.max_num_relevant_logs),
     document_max_num_relevant_logs |-> doc.max_num_relevant_logs,
     update_interval_in_seconds |->
        IF doc.update_interval_in_seconds # 0
        THEN SetUpdateInterval(doc.update_interval_in_seconds)
        ELSE DefaultUpdateInterval,
     cleanup_timeout_in_seconds |-> ReadCleanupTimeout(doc.cleanup_timeout_in_seconds)]

\* ------------------------------------------------------------------ state

VARIABLES
    pc,                    \* program point of _run
    config,                \* the held config snapshot
    last_built_revision,   \* the watermark, Unset before the first sync
    last_cleanup_time,     \* clock of the last successful cleanup, or Unset
    current_time,          \* time.time() read at the top of the iteration
    has_revision_changed,  \* result of svn_update in this iteration
    current_revision,      \* result of svn_revision in this iteration, or Unset
    first_sync,            \* this iteration took the branch of line 433
    logs,                  \* log texts collected in this iteration
    ignore_build,          \* the ignore-build command was found
    raised,                \* what the except clause of the loop caught last
    now,                   \* the clock
    headRev,               \* newest revision of the remote repository
    wcRev,                 \* revision of the working copy
    buildDirExists,        \* the build output directory of build_find exists
    fetched,               \* revisions svn_log was called for in this iteration
    cues,                  \* cues announced in this iteration
    build_result,          \* outcome of BuildExecutor in this iteration
    new_build_name,        \* name handed to build_compact in this iteration
    last_attempt,          \* current_revision of the latest BuildExecutor run
    packaging,             \* what build_compact did in this iteration
    build_run,             \* how the build process of this iteration ended
    editor_kills,          \* calls of unreal_kill_process_if_running in this iteration
    archived,              \* the latest archive: its name and the revision built
    interrupted            \* the step just taken had a KeyboardInterrupt raised

loopVars == <<pc, config, last_built_revision, last_cleanup_time, current_time,
          has_revision_changed, current_revision, first_sync, logs, ignore_build,
          raised, now, headRev, wcRev, buildDirExists, fetched, cues,
          build_result, new_build_name, last_attempt, packaging, build_run,
          editor_kills, archived, interrupted>>

\* The leaf components taken alone: the state of the export directory for one
\* archive name under build_compact, and one run of the log scanner.
VARIABLES
    temp_archive,          \* the archive under the temporary name
    final_archive,         \* the archive under the final name
    compressions,          \* how many times 7z was run
    compact,               \* the latest call of build_compact
    packager_step,         \* what acted on the export directory last
    scan                   \* the latest scan: its inputs and what it found

\* The standalone legacy loop of src/main.py (loop_pool_and_build), taken alone.
VARIABLES
    legacy_pc,                       \* program point of loop_pool_and_build
    svn_update_interval_in_seconds,  \* the poll interval it read at start, or Unset
    last_built_rev,                  \* its watermark, Unset at start
    current_rev,                     \* svn_revision of this iteration, or Unset
    changed,                         \* svn_update of this iteration
    legacy_headRev,                  \* newest revision of its remote repository
    legacy_wcRev,                    \* revision of its working copy
    legacy_now                       \* its clock

legacyVars == <<legacy_pc, svn_update_interval_in_seconds, last_built_rev, current_rev,
                changed, legacy_headRev, legacy_wcRev, legacy_now>>

leafVars == <<temp_archive, final_archive, compressions, compact, packager_step, scan,
              legacyVars>>

\* src/main.py, lines 421-430: the interval of the document, a non-positive one
\* replaced by one second.
LegacyUpdateInterval(documented) == IF documented <= 0 THEN 1 ELSE documented

\* The intervals a document gives the legacy loop.
LegacyDocUpdateIntervals == {0, 5}

vars == <<loopVars, leafVars>>

\* No call of build_compact yet.
NoCall ==
    [source_exists |-> FALSE, override_zip |-> FALSE, archiver |-> "none",
     ran_archiver |-> FALSE, raised |-> FALSE]

\* No scan yet.
NoScan ==
    [config |-> [make_dev_build |-> <<"a">>, ignore_build |-> <<"b">>,
                 build_type |-> "Shipping", is_enabled |-> TRUE],
     a |-> <<>>, b |-> <<>>, found_a |-> <<>>, found_b |-> <<>>, found_ab |-> <<>>,
     found_commands |-> <<>>, build_type |-> "Shipping", ignore_build |-> FALSE]

\* No build process was run.
NoRun == [raised |-> FALSE, exit_code |-> Unset]

\* No archive name: build_compact was not called.
NoName == [revision |-> Unset, build_type |-> "none"]

\* No archive was made yet.
NoArchive == [name |-> NoName, revision |-> Unset]

\* The variables one iteration assigns before it reads them, as they are when
\* an iteration starts.
IterationLocalsReset ==
    /\ has_revision_changed' = FALSE
    /\ current_revision' = Unset
    /\ first_sync' = FALSE
    /\ logs' = <<>>
    /\ ignore_build' = FALSE
    /\ fetched' = <<>>
    /\ cues' = {}
    /\ build_result' = "NONE"
    /\ new_build_name' = NoName
    /\ packaging' = "none"
    /\ build_run' = NoRun
    /\ editor_kills' = 0

Init ==
    /\ pc = "reload"
    /\ config = EmptyConfig
    /\ last_built_revision = Unset
    /\ last_cleanup_time = Unset
    /\ current_time = 0
    /\ has_revision_changed = FALSE
    /\ current_revision = Unset
    /\ first_sync = FALSE
    /\ logs = <<>>
    /\ ignore_build = FALSE
    /\ raised = "none"
    /\ now = 0
    /\ headRev = 0
    /\ wcRev = 0
    /\ buildDirExists \in BOOLEAN
    /\ fetched = <<>>
    /\ cues = {}
    /\ build_result = "NONE"
    /\ new_build_name = NoName
    /\ last_attempt = Unset
    /\ packaging = "none"
    /\ build_run = NoRun
    /\ editor_kills = 0
    /\ archived = NoArchive
    /\ temp_archive = "absent"
    /\ final_archive = "absent"
    /\ compressions = 0
    /\ compact = NoCall
    /\ packager_step = "none"
    /\ scan = NoScan
    /\ interrupted = FALSE
    /\ legacy_pc = "start"
    /\ svn_update_interval_in_seconds = Unset
    /\ last_built_rev = Unset
    /\ current_rev = Unset
    /\ changed = FALSE
    /\ legacy_headRev = 0
    /\ legacy_wcRev = 0
    /\ legacy_now = 0

\* ------------------------------------------------- the loop's computations

\* Mutant: an update that left the revision where it was counts as a change.
SvnUpdateChangedOrSame(before, after) == after >= before

\* Mutant: svn_update reports a change only for a move of one revision.
SvnUpdateChangedByOne(before, after) == after = before + 1

\* svn_update: the working copy changed when it moved to a newer revision.
SvnUpdateChanged(before, after) == after > before

\* Mutant: the first successful sync leaves the watermark unset.
InitWatermarkSkipped(watermark, current) == watermark

\* _run, lines 433-434: the first successful sync sets the watermark.
InitWatermark(watermark, current) ==
    IF watermark = Unset THEN current ELSE watermark

\* Mutant: the number of revisions is not capped by max_num_relevant_logs.
NumRevisionsUncapped(max_logs, current, watermark) == Max(0, current - watermark)

\* _run, line 438: num_revisions_betwen_last_and_new.
NumRevisions(max_logs, current, watermark) ==
    Max(0, Min(max_logs, current - watermark))

\* Mutant: the range starts one revision early.
RevisionStartOffByOne(current, num) == current - Max(0, num)

\* _run, line 448: revision_start.
RevisionStart(current, num) == current - Max(0, num - 1)

\* _run, line 456: range(revision_start, revision_end + 1), ascending.
RevisionRange(start, end) == [i \in 1..(end - start + 1) |-> start + i - 1]

\* _run, lines 437-449: the revisions whose logs are collected.
RevisionsToFetch(cfg, current, watermark) ==
    LET num == NumRevisions(cfg.max_num_relevant_logs, current, watermark)
    IN IF cfg.max_num_relevant_logs > 0 /\ num > 0
       THEN RevisionRange(RevisionStart(current, num), current)
       ELSE <<>>

\* _run, lines 453-460: found_commands, the commands of every log in turn.
RECURSIVE FoundCommands(_, _)
FoundCommands(cfg, texts) ==
    IF texts = <<>> THEN <<>>
    ELSE log_find_commands(cfg, Head(texts)) \o FoundCommands(cfg, Tail(texts))

\* _run, lines 466-468: a make-dev-build command switches the build type.
BuildTypeAfterCommands(cfg, found) ==
    IF \E i \in 1..Len(found) : found[i] = cfg.make_dev_build
    THEN "Development" ELSE cfg.build_type

\* _run, lines 466-473: the elif branch of the command loop sets ignore_build.
IgnoreAfterCommands(cfg, found) ==
    \E i \in 1..Len(found) :
        /\ ~(found[i] = cfg.make_dev_build)
        /\ found[i] = cfg.ignore_build

\* Mutant: an unsuccessful build leaves the watermark where it was.
WatermarkHeldBack(watermark, current) == watermark

\* Mutant: an unsuccessful build unsets the watermark.
WatermarkForgotten(watermark, current) == Unset

\* Mutant: an unsuccessful build moves the watermark one revision only.
WatermarkStepped(watermark, current) == Min(watermark + 1, current)

\* _run, line 485: the watermark after an unsuccessful build.
WatermarkAfterFailedBuild(watermark, current) == current

\* _run, line 494: the watermark after the "build completed" cue.
WatermarkAfterCompleted(watermark, current) == current

\* Mutant: cleanup is due in every iteration.
CleanupAlwaysDue(cfg, time, last_cleanup) == TRUE

\* _run, lines 417-419: cleanup is due.
CleanupDue(cfg, time, last_cleanup) ==
    LET cleanup_time_difference ==
            IF last_cleanup # Unset THEN time - last_cleanup ELSE 0
    IN \/ last_cleanup = Unset
       \/ cleanup_time_difference >= cfg.cleanup_timeout_in_seconds

\* ---------------------------------------------------------------- actions

\* except Exception (lines 502-503): the error is printed and the loop goes on
\* with the next pass, without a wait; the config, the watermark and the
\* cleanup time keep what the iteration had assigned to them.
Caught(error) ==
    /\ raised' = error
    /\ pc' = "reload"
    /\ IterationLocalsReset

\* BuildAutomatorConfig.is_valid() of the held snapshot (line 400): the paths
\* are looked up on the file system at the time of the call. The defaults
\* never validate; a snapshot read from a document validates while its paths
\* are there.
HeldValidities(held) == IF held = EmptyConfig THEN {FALSE} ELSE BOOLEAN

\* Mutant: the loaded config replaces the held one without the validity test.
SnapshotReplacedUnchecked(held, loaded, new_config) == new_config

\* Lines 399-410: the snapshot the iteration goes on with.
SnapshotAfterReload(held, loaded, new_config) ==
    IF loaded /\ new_config.valid THEN new_config ELSE held

\* Lines 393-415: read the clock and reload the config. The load yields no
\* config (loaded is FALSE: file missing or unparseable), a config that does
\* not validate, or a valid one. The valid field of the held snapshot records
\* the result of its latest is_valid().
ReloadConfig(loaded) ==
    /\ pc = "reload"
    /\ current_time' = now
    /\ raised' = "none"
    /\ \E doc \in Documents, ok \in BOOLEAN, held_valid \in HeldValidities(config) :
        LET new_config == ReadConfig(doc, ok)
            held == [config EXCEPT !.valid = held_valid]
        IN IF (~loaded \/ ~new_config.valid) /\ ~held_valid
           THEN /\ now + wait_time_in_seconds <= MaxTime
                /\ now' = now + wait_time_in_seconds
                /\ pc' = "reload"
                /\ config' = held
                /\ UNCHANGED editor_kills
           ELSE /\ config' = SnapshotAfterReload(held, loaded, new_config)
                /\ editor_kills' = editor_kills + 1
                /\ pc' = "cleanup"
                /\ UNCHANGED now
    /\ UNCHANGED <<last_built_revision, last_cleanup_time, has_revision_changed,
                   current_revision, first_sync, logs, ignore_build, headRev, wcRev,
                   buildDirExists, fetched, cues, build_result, new_build_name,
                   last_attempt, packaging,
                   build_run>>

Reload ==
    /\ \E loaded \in BOOLEAN : ReloadConfig(loaded)
    /\ interrupted' = FALSE
    /\ UNCHANGED leafVars
    /\ UNCHANGED archived

\* _load_config (config_type.py, lines 32-39): a KeyboardInterrupt raised while
\* the document is opened or parsed is caught by the bare except, which returns
\* None; _run goes on as after a load that yielded no config.
InterruptedLoad ==
    /\ ReloadConfig(FALSE)
    /\ interrupted' = TRUE
    /\ UNCHANGED leafVars
    /\ UNCHANGED archived

\* Mutant: a failed cleanup does not end the iteration.
PcAfterCleanupIgnoringFailure(succeeded) == "update"

\* Lines 421-428: after a cleanup, the update or (continue) the next pass.
PcAfterCleanup(succeeded) == IF succeeded THEN "update" ELSE "wait"

\* Lines 417-428: svn cleanup when due; a failed cleanup alerts and waits.
Cleanup ==
    /\ pc = "cleanup"
    /\ IF CleanupDue(config, current_time, last_cleanup_time)
       THEN \E succeeded \in BOOLEAN :
            /\ last_cleanup_time' =
                    IF succeeded THEN current_time ELSE last_cleanup_time
            /\ cues' = IF succeeded THEN cues ELSE cues \cup {"cleanup failed"}
            /\ pc' = PcAfterCleanup(succeeded)
       ELSE /\ pc' = "update"
            /\ UNCHANGED <<last_cleanup_time, cues>>
    /\ interrupted' = FALSE
    /\ UNCHANGED leafVars
    /\ UNCHANGED archived
    /\ UNCHANGED <<config, last_built_revision, current_time, has_revision_changed,
                   current_revision, first_sync, logs, ignore_build, raised, now, headRev,
                   wcRev, buildDirExists, fetched, build_result, new_build_name,
                   last_attempt, packaging,
                   build_run, editor_kills>>

\* Lines 430-434: svn_update (svn info, svn update, svn info), svn_revision and
\* the initialisation of the watermark. Each of the four commands can fail,
\* which raises; a successful svn update moves the working copy to the remote
\* head, a failed one leaves it where it was.
SyncOutcomes ==
    {"ok", "svn info failed before", "svn update failed",
     "svn info failed after", "svn info failed current"}

Sync ==
    /\ pc = "update"
    /\ \E outcome \in SyncOutcomes :
        CASE outcome \in {"svn info failed before", "svn update failed"} ->
                /\ Caught(outcome)
                /\ UNCHANGED <<wcRev, last_built_revision>>
          [] outcome \in {"svn info failed after", "svn info failed current"} ->
                /\ wcRev' = headRev
                /\ Caught(outcome)
                /\ UNCHANGED last_built_revision
          [] outcome = "ok" ->
                /\ wcRev' = headRev
                /\ has_revision_changed' = SvnUpdateChanged(wcRev, wcRev')
                /\ current_revision' = wcRev'
                /\ first_sync' = (last_built_revision = Unset)
                /\ last_built_revision' =
                        InitWatermark(last_built_revision, current_revision')
                /\ pc' = IF has_revision_changed' THEN "logs" ELSE "wait"
                /\ UNCHANGED <<logs, ignore_build, raised, fetched, cues, build_result,
                               new_build_name, packaging,
                   build_run, editor_kills>>
    /\ interrupted' = FALSE
    /\ UNCHANGED leafVars
    /\ UNCHANGED archived
    /\ UNCHANGED <<config, last_cleanup_time, current_time, now, headRev,
                   buildDirExists, last_attempt>>

\* Lines 436-476: the revision range, one svn log per revision in ascending
\* order, the scan of every log and the evaluation of the commands found.
CollectLogs ==
    /\ pc = "logs"
    /\ LET revisions == RevisionsToFetch(config, current_revision, last_built_revision)
       IN \E texts \in [1..Len(revisions) -> LogTexts] :
            LET found_commands == FoundCommands(config, texts)
                ignore == IgnoreAfterCommands(config, found_commands)
            IN /\ fetched' = revisions
               /\ logs' = texts
               /\ config' = [config EXCEPT
                                !.build_type = BuildTypeAfterCommands(config, found_commands)]
               /\ ignore_build' = ignore
               /\ cues' = IF ignore THEN cues \cup {"ignoring build"} ELSE cues
    /\ pc' = "dump"
    /\ interrupted' = FALSE
    /\ UNCHANGED leafVars
    /\ UNCHANGED archived
    /\ UNCHANGED <<last_built_revision, last_cleanup_time, current_time,
                   has_revision_changed, current_revision, first_sync, raised, now, headRev,
                   wcRev, buildDirExists, build_result, new_build_name, last_attempt,
                   packaging,
                   build_run, editor_kills>>

\* build_dump_log_file: writing svn_logs.txt into a directory that does not
\* exist raises (the existence checks only print).
DumpRaises(dirExists) == ~dirExists

\* Lines 478-480: the collected logs are dumped into the build directory.
DumpLogs ==
    /\ pc = "dump"
    /\ IF Len(logs) > 0 /\ DumpRaises(buildDirExists)
       THEN Caught("log dump failed")
       ELSE /\ pc' = IF ignore_build THEN "completed" ELSE "build"
            /\ UNCHANGED <<has_revision_changed, current_revision, first_sync, logs, ignore_build,
                           raised, fetched, cues, build_result, new_build_name, packaging,
                   build_run, editor_kills>>
    /\ interrupted' = FALSE
    /\ UNCHANGED leafVars
    /\ UNCHANGED archived
    /\ UNCHANGED <<config, last_built_revision, last_cleanup_time, current_time, now,
                   headRev, wcRev, buildDirExists, last_attempt>>

BuildResponses == {"SUCCESS", "FAILED", "UNEXPECTED_ERROR"}

\* The exit codes of the build process.
ExitCodes == {0, 1, 2}

\* unreal_run_automation_tool: the process ran and exited with a code, or
\* launching it or reading its output raised.
ProcessRuns ==
    {[raised |-> FALSE, exit_code |-> code] : code \in ExitCodes}
        \cup {[raised |-> TRUE, exit_code |-> Unset]}

\* Mutant: only exit code 1 counts as a failed build.
BuildFailsOnlyOnExitCodeOne(run) ==
    IF run.raised THEN "UNEXPECTED_ERROR"
    ELSE IF run.exit_code = 1 THEN "FAILED" ELSE "SUCCESS"

\* unreal_build_project (lines 169-200): the response by how the process ended.
unreal_build_project(run) ==
    IF run.raised THEN "UNEXPECTED_ERROR"
    ELSE IF run.exit_code # 0 THEN "FAILED" ELSE "SUCCESS"

\* build_dump_logs_and_compact, line 380: the archive name.
NewBuildName(revision_num, cfg) ==
    [revision |-> revision_num, build_type |-> cfg.build_type]

\* build_compact with _compact_file (lines 281-351), by the state of the build
\* output directory:
\*   "no build directory"  _compact_file returns None, nothing is archived
\*   "archived"            7z wrote the temporary archive, which was renamed
\*   "archiver failed"     7z exited without writing the archive, no rename
\*   "archiver not found"  subprocess.run cannot start 7z and raises
\*   "rename failed"       Path.rename raises (the final name is taken)
PackagingOutcomes(dirExists) ==
    IF dirExists
    THEN {"archived", "archiver failed", "archiver not found", "rename failed"}
    ELSE {"no build directory"}

\* The packaging outcomes that leave build_compact with an exception.
PackagingRaises(outcome) == outcome \in {"archiver not found", "rename failed"}

\* Lines 482-487 with build_dump_logs_and_compact (357-382): the starting cue,
\* the build, and by its outcome the error cue, the fail cue or the packaging.
\* A successful build rewrites the output directory; the directory build_find
\* names is there afterwards or not.
Build ==
    /\ pc = "build"
    /\ last_attempt' = current_revision
    /\ \E run \in ProcessRuns :
        LET response == unreal_build_project(run)
        IN
        IF response # "SUCCESS"
        THEN /\ build_result' = response
             /\ build_run' = run
             /\ editor_kills' = editor_kills + 1
             /\ cues' = cues \cup {"build starting",
                            IF response = "FAILED" THEN "build failed"
                                                   ELSE "unexpected error"}
             /\ last_built_revision' =
                    WatermarkAfterFailedBuild(last_built_revision, current_revision)
             /\ pc' = "wait"
             /\ UNCHANGED <<archived, buildDirExists, new_build_name, has_revision_changed,
                            current_revision, first_sync, logs, ignore_build, raised,
                            fetched, packaging>>
        ELSE \E dirAfter \in BOOLEAN :
             /\ buildDirExists' = dirAfter
             /\ UNCHANGED last_built_revision
             /\ IF Len(logs) > 0 /\ DumpRaises(dirAfter)
                THEN Caught("log dump failed") /\ UNCHANGED archived
                ELSE \E outcome \in PackagingOutcomes(dirAfter) :
                     IF PackagingRaises(outcome)
                     THEN Caught(outcome) /\ UNCHANGED archived
                     ELSE /\ build_result' = response
                          /\ cues' = cues \cup {"build starting"}
                          /\ new_build_name' = NewBuildName(last_built_revision, config)
                          /\ packaging' = outcome
                          /\ archived' =
                                IF outcome = "archived"
                                THEN [name |-> new_build_name',
                                      revision |-> current_revision]
                                ELSE archived
                          /\ build_run' = run
                          /\ editor_kills' = editor_kills + 1
                          /\ pc' = "completed"
                          /\ UNCHANGED <<has_revision_changed, current_revision,
                                         first_sync, logs, ignore_build, raised, fetched>>
    /\ interrupted' = FALSE
    /\ UNCHANGED leafVars
    /\ UNCHANGED <<config, last_cleanup_time, current_time, now, headRev, wcRev>>

\* Lines 490-494: the "build completed" cue and the watermark advance.
Completed ==
    /\ pc = "completed"
    /\ cues' = cues \cup {"build completed"}
    /\ last_built_revision' =
            WatermarkAfterCompleted(last_built_revision, current_revision)
    /\ pc' = "wait"
    /\ interrupted' = FALSE
    /\ UNCHANGED leafVars
    /\ UNCHANGED archived
    /\ UNCHANGED <<config, last_cleanup_time, current_time, has_revision_changed,
                   current_revision, first_sync, logs, ignore_build, raised, now, headRev, wcRev,
                   buildDirExists, fetched, build_result, new_build_name, last_attempt,
                   packaging,
                   build_run, editor_kills>>

\* wait (lines 395-396): sleep the update interval, then the next pass.
Wait ==
    /\ pc = "wait"
    /\ now + config.update_interval_in_seconds <= MaxTime
    /\ now' = now + config.update_interval_in_seconds
    /\ pc' = "reload"
    /\ IterationLocalsReset
    /\ interrupted' = FALSE
    /\ UNCHANGED leafVars
    /\ UNCHANGED archived
    /\ UNCHANGED <<config, last_built_revision, last_cleanup_time, current_time,
                   raised, headRev, wcRev, buildDirExists, last_attempt>>

\* except KeyboardInterrupt (lines 498-500): _run returns.
Interrupt ==
    /\ pc # "done"
    /\ pc' = "done"
    /\ interrupted' = TRUE
    /\ UNCHANGED leafVars
    /\ UNCHANGED archived
    /\ IterationLocalsReset
    /\ UNCHANGED <<config, last_built_revision, last_cleanup_time, current_time,
                   raised, now, headRev, wcRev, buildDirExists, last_attempt>>

\* The environment: somebody commits a revision to the remote repository.
Commit ==
    /\ pc # "done"
    /\ headRev < MaxRev
    /\ headRev' = headRev + 1
    /\ UNCHANGED <<pc, config, last_built_revision, last_cleanup_time, current_time,
                   has_revision_changed, current_revision, first_sync, logs, ignore_build, raised,
                   now, wcRev, buildDirExists, fetched, cues, build_result,
                   new_build_name, last_attempt, packaging, build_run, editor_kills,
                   interrupted>>
    /\ UNCHANGED leafVars
    /\ UNCHANGED archived

Next ==
    \/ Reload
    \/ InterruptedLoad
    \/ Cleanup
    \/ Sync
    \/ CollectLogs
    \/ DumpLogs
    \/ Build
    \/ Completed
    \/ Wait
    \/ Interrupt
    \/ Commit

Spec == Init /\ [][Next]_vars

\* ------------------------------------------------- the Notifier can raise

\* Lines 466-473 up to a raising sound_say: the build type after the commands
\* that precede the first one taking the ignore branch.
BuildTypeBeforeIgnoreCue(cfg, found) ==
    LET taken == {i \in 1..Len(found) :
                    /\ ~(found[i] = cfg.make_dev_build)
                    /\ found[i] = cfg.ignore_build}
        first == CHOOSE i \in taken : \A j \in taken : i <= j
    IN BuildTypeAfterCommands(cfg, SubSeq(found, 1, first - 1))

\* sound_say (227-230) and sound_play_random (233-259) catch nothing:
\* pyttsx3.init, runAndWait or winsound.PlaySound raising leaves through the
\* caller. The places of _run that announce a cue:
\*   line 425      after a failed cleanup
\*   line 472      the ignoring-build cue inside the command loop
\*   lines 359-360 the starting cue, before the build
\*   lines 366-372 the error or fail cue, after the build
\*   lines 491-492 the "build completed" cue, before the watermark advance
NotifierRaises ==
    /\ \/ /\ pc = "cleanup"
          /\ CleanupDue(config, current_time, last_cleanup_time)
          /\ UNCHANGED <<config, last_attempt, buildDirExists>>
       \/ /\ pc = "logs"
          /\ LET revisions ==
                    RevisionsToFetch(config, current_revision, last_built_revision)
             IN \E texts \in [1..Len(revisions) -> LogTexts] :
                  LET found_commands == FoundCommands(config, texts)
                  IN /\ IgnoreAfterCommands(config, found_commands)
                     /\ config' = [config EXCEPT !.build_type =
                                      BuildTypeBeforeIgnoreCue(config, found_commands)]
          /\ UNCHANGED <<last_attempt, buildDirExists>>
       \/ /\ pc = "build"
          /\ UNCHANGED <<config, last_attempt, buildDirExists>>
       \/ /\ pc = "build"
          /\ \E run \in ProcessRuns : unreal_build_project(run) # "SUCCESS"
          /\ last_attempt' = current_revision
          /\ UNCHANGED <<config, buildDirExists>>
       \/ /\ pc = "completed"
          /\ UNCHANGED <<config, last_attempt, buildDirExists>>
    /\ Caught("notifier failed")
    /\ interrupted' = FALSE
    /\ UNCHANGED <<last_built_revision, last_cleanup_time, current_time, now,
                   headRev, wcRev>>
    /\ UNCHANGED leafVars
    /\ UNCHANGED archived

NotifierNext ==
    \/ Next
    \/ NotifierRaises

NotifierSpec == Init /\ [][NotifierNext]_vars

\* ------------------------------------------------------------ the Packager

\* Most runs of 7z.
MaxCompressions == 3

\* What can lie under an archive name: nothing, an archive written by a run of
\* 7z that exited with 0, one left by a run that exited with another code, one
\* left by a run that was interrupted.
ArchiveStates == {"absent", "complete", "failed run", "interrupted run"}

\* _sh(["7z", "a", ...]) (line 314): 7z is not found (subprocess.run raises), or
\* it runs and exits with 0, or with another code leaving an archive or none.
\* The exit code is not looked at.
ArchiverOutcomes ==
    {"not found", "written", "failed, archive left", "failed, nothing left"}

ArchiveLeftBy(archiver) ==
    CASE archiver = "written" -> "complete"
      [] archiver = "failed, archive left" -> "failed run"
      [] OTHER -> "absent"

\* _compact_file (lines 281-316) called with the temporary name: zip is what
\* lies under that name afterwards, path whether a path (not None) is returned.
compact_file(source_exists, should_override, zip, archiver) ==
    IF ~source_exists
    THEN [zip |-> zip, path |-> FALSE, ran_archiver |-> FALSE, raised |-> FALSE]
    ELSE IF zip # "absent" /\ ~should_override
    THEN [zip |-> zip, path |-> TRUE, ran_archiver |-> FALSE, raised |-> FALSE]
    ELSE IF archiver = "not found"
    THEN [zip |-> "absent", path |-> FALSE, ran_archiver |-> FALSE, raised |-> TRUE]
    ELSE [zip |-> ArchiveLeftBy(archiver), path |-> TRUE, ran_archiver |-> TRUE,
          raised |-> FALSE]

\* Path.rename (line 349) on Windows raises when the target exists.
RenameRaises(target) == target # "absent"

\* build_compact (lines 341-351): the export directory afterwards.
build_compact(source_exists, override_zip, temp, final, archiver) ==
    LET compacted == compact_file(source_exists, override_zip, temp, archiver)
    IN IF compacted.raised
       THEN [temp |-> compacted.zip, final |-> final,
             ran_archiver |-> compacted.ran_archiver, raised |-> TRUE]
       ELSE IF compacted.path /\ compacted.zip # "absent"
       THEN IF RenameRaises(final)
            THEN [temp |-> compacted.zip, final |-> final,
                  ran_archiver |-> compacted.ran_archiver, raised |-> TRUE]
            ELSE [temp |-> "absent", final |-> compacted.zip,
                  ran_archiver |-> compacted.ran_archiver, raised |-> FALSE]
       ELSE [temp |-> compacted.zip, final |-> final,
             ran_archiver |-> compacted.ran_archiver, raised |-> FALSE]

\* One call of build_compact for the archive name.
BuildCompact ==
    /\ \E source_exists \in BOOLEAN, override_zip \in BOOLEAN,
          archiver \in ArchiverOutcomes :
        LET after == build_compact(source_exists, override_zip, temp_archive,
                                   final_archive, archiver)
        IN /\ after.ran_archiver => compressions < MaxCompressions
           /\ temp_archive' = after.temp
           /\ final_archive' = after.final
           /\ compressions' = compressions + (IF after.ran_archiver THEN 1 ELSE 0)
           /\ compact' = [source_exists |-> source_exists,
                          override_zip |-> override_zip,
                          archiver |-> archiver,
                          ran_archiver |-> after.ran_archiver,
                          raised |-> after.raised]
    /\ packager_step' = "build_compact"
    /\ UNCHANGED <<loopVars, legacyVars, scan>>

\* The environment: a run of the program is interrupted while 7z writes the
\* temporary archive, which stays behind.
InterruptedCompression ==
    /\ temp_archive = "absent"
    /\ temp_archive' = "interrupted run"
    /\ packager_step' = "interrupted"
    /\ UNCHANGED <<loopVars, legacyVars, final_archive, compressions, compact, scan>>

\* The environment: the operator takes the final archive out of the export
\* directory.
ArchiveTaken ==
    /\ final_archive # "absent"
    /\ final_archive' = "absent"
    /\ packager_step' = "taken"
    /\ UNCHANGED <<loopVars, legacyVars, temp_archive, compressions, compact, scan>>

PackagerNext ==
    \/ BuildCompact
    \/ InterruptedCompression
    \/ ArchiveTaken

PackagerSpec == Init /\ [][PackagerNext]_vars

\* ------------------------------------------------------- the log scanner

\* The characters of the scanned texts.
ScanChars == {"a", "b", "A"}

\* Longest scanned text.
MaxScanLen == 2

\* The texts handed to the scanner.
ScanTexts == UNION {[1..n -> ScanChars] : n \in 0..MaxScanLen}

\* The keyword strings of the scanned configs, one of them of two characters.
ScanKeywordStrings == KeywordStrings \cup {<<"a", "b">>}

\* _BA_SpecialLogKeywordsCommandsConfig as read from a document, with the
\* build type the command loop starts from.
ScanConfigs ==
    [make_dev_build : ScanKeywordStrings,
     ignore_build : ScanKeywordStrings,
     build_type : DocBuildTypes,
     is_enabled : BOOLEAN]

\* log_find_commands on two texts and on their concatenation, and lines 453-473
\* of _run on the two texts as the logs of two revisions. Each behaviour
\* scans once.
Scan ==
    /\ scan = NoScan
    /\ \E cfg \in ScanConfigs, a \in ScanTexts, b \in ScanTexts :
        LET found_commands == FoundCommands(cfg, <<a, b>>)
        IN scan' = [config |-> cfg, a |-> a, b |-> b,
                    found_a |-> log_find_commands(cfg, a),
                    found_b |-> log_find_commands(cfg, b),
                    found_ab |-> log_find_commands(cfg, a \o b),
                    found_commands |-> found_commands,
                    build_type |-> BuildTypeAfterCommands(cfg, found_commands),
                    ignore_build |-> IgnoreAfterCommands(cfg, found_commands)]
    /\ UNCHANGED <<loopVars, legacyVars, temp_archive, final_archive, compressions, compact,
                   packager_step>>

ScannerNext ==
    \/ Scan

ScannerSpec == Init /\ [][ScannerNext]_vars

\* ----------------------------------------- the legacy loop of src/main.py

\* The locals of one iteration of loop_pool_and_build, as they are when the
\* next iteration starts.
LegacyLocalsReset ==
    /\ current_rev' = Unset
    /\ changed' = FALSE

\* Lines 382-449: the config is read once, before the loop.
LegacyStart ==
    /\ legacy_pc = "start"
    /\ \E documented \in LegacyDocUpdateIntervals :
        svn_update_interval_in_seconds' = LegacyUpdateInterval(documented)
    /\ legacy_pc' = "update"
    /\ UNCHANGED <<last_built_rev, current_rev, changed, legacy_headRev, legacy_wcRev,
                   legacy_now>>
    /\ UNCHANGED <<loopVars, temp_archive, final_archive, compressions, compact,
                   packager_step, scan>>

\* Lines 456-458: svn_update (svn info, svn update, svn info) and svn_revision
\* (svn info); any of them failing raises.
LegacyUpdate ==
    /\ legacy_pc = "update"
    /\ \E outcome \in SyncOutcomes :
        CASE outcome \in {"svn info failed before", "svn update failed"} ->
                /\ legacy_pc' = "caught"
                /\ LegacyLocalsReset
                /\ UNCHANGED legacy_wcRev
          [] outcome \in {"svn info failed after", "svn info failed current"} ->
                /\ legacy_wcRev' = legacy_headRev
                /\ legacy_pc' = "caught"
                /\ LegacyLocalsReset
          [] outcome = "ok" ->
                /\ legacy_wcRev' = legacy_headRev
                /\ changed' = SvnUpdateChanged(legacy_wcRev, legacy_wcRev')
                /\ current_rev' = legacy_wcRev'
                /\ legacy_pc' = "decide"
    /\ UNCHANGED <<svn_update_interval_in_seconds, last_built_rev, legacy_headRev,
                   legacy_now>>
    /\ UNCHANGED <<loopVars, temp_archive, final_archive, compressions, compact,
                   packager_step, scan>>

\* Line 459: should_build.
ShouldBuild(has_changed, rev, built_rev) == has_changed /\ rev # built_rev

\* Lines 459-461 and the end of the while body: without should_build the
\* iteration is over and the next one starts.
LegacyDecide ==
    /\ legacy_pc = "decide"
    /\ IF ShouldBuild(changed, current_rev, last_built_rev)
       THEN /\ legacy_pc' = "build"
            /\ UNCHANGED <<current_rev, changed>>
       ELSE /\ legacy_pc' = "update"
            /\ LegacyLocalsReset
    /\ UNCHANGED <<svn_update_interval_in_seconds, last_built_rev, legacy_headRev,
                   legacy_wcRev, legacy_now>>
    /\ UNCHANGED <<loopVars, temp_archive, final_archive, compressions, compact,
                   packager_step, scan>>

\* What find_and_process_last_build (lines 374-376) does: it returns, or 7z
\* cannot be started and subprocess.run raises.
LegacyProcessOutcomes == {"processed", "archiver not found"}

\* Lines 461-495: the build (build_unreal_project, lines 217-257, classifies
\* as unreal_build_project does); after FAILED or UNEXPECTED_ERROR the wait;
\* after SUCCESS the watermark, the archive and the wait.
LegacyBuild ==
    /\ legacy_pc = "build"
    /\ \E run \in ProcessRuns :
        IF unreal_build_project(run) # "SUCCESS"
        THEN /\ legacy_pc' = "wait"
             /\ UNCHANGED <<last_built_rev, current_rev, changed>>
        ELSE /\ last_built_rev' = current_rev
             /\ \E outcome \in LegacyProcessOutcomes :
                  IF outcome = "processed"
                  THEN /\ legacy_pc' = "wait"
                       /\ UNCHANGED <<current_rev, changed>>
                  ELSE /\ legacy_pc' = "caught"
                       /\ LegacyLocalsReset
    /\ UNCHANGED <<svn_update_interval_in_seconds, legacy_headRev, legacy_wcRev,
                   legacy_now>>
    /\ UNCHANGED <<loopVars, temp_archive, final_archive, compressions, compact,
                   packager_step, scan>>

\* wait (lines 453-454): sleep the update interval.
LegacyWait ==
    /\ legacy_pc = "wait"
    /\ legacy_now + svn_update_interval_in_seconds <= MaxTime
    /\ legacy_now' = legacy_now + svn_update_interval_in_seconds
    /\ legacy_pc' = "update"
    /\ LegacyLocalsReset
    /\ UNCHANGED <<svn_update_interval_in_seconds, last_built_rev, legacy_headRev,
                   legacy_wcRev>>
    /\ UNCHANGED <<loopVars, temp_archive, final_archive, compressions, compact,
                   packager_step, scan>>

\* except Exception (lines 502-503): the error is printed and the while loop
\* goes on.
LegacyCaught ==
    /\ legacy_pc = "caught"
    /\ legacy_pc' = "update"
    /\ UNCHANGED <<svn_update_interval_in_seconds, last_built_rev, current_rev, changed,
                   legacy_headRev, legacy_wcRev, legacy_now>>
    /\ UNCHANGED <<loopVars, temp_archive, final_archive, compressions, compact,
                   packager_step, scan>>

\* except KeyboardInterrupt (lines 498-500): loop_pool_and_build returns.
LegacyInterrupt ==
    /\ legacy_pc \notin {"start", "done"}
    /\ legacy_pc' = "done"
    /\ LegacyLocalsReset
    /\ UNCHANGED <<svn_update_interval_in_seconds, last_built_rev, legacy_headRev,
                   legacy_wcRev, legacy_now>>
    /\ UNCHANGED <<loopVars, temp_archive, final_archive, compressions, compact,
                   packager_step, scan>>

\* The environment: somebody commits a revision to the remote repository.
LegacyCommit ==
    /\ legacy_pc \notin {"start", "done"}
    /\ legacy_headRev < MaxRev
    /\ legacy_headRev' = legacy_headRev + 1
    /\ UNCHANGED <<legacy_pc, svn_update_interval_in_seconds, last_built_rev,
                   current_rev, changed, legacy_wcRev, legacy_now>>
    /\ UNCHANGED <<loopVars, temp_archive, final_archive, compressions, compact,
                   packager_step, scan>>

LegacyNext ==
    \/ LegacyStart
    \/ LegacyUpdate
    \/ LegacyDecide
    \/ LegacyBuild
    \/ LegacyWait
    \/ LegacyCaught
    \/ LegacyInterrupt
    \/ LegacyCommit

LegacySpec == Init /\ [][LegacyNext]_vars

\* ----------------------------------------------------------------- claims

\* A change was detected with the watermark below the new revision.
WatermarkWasBehind == Len(fetched) > 0

C3_WatermarkMonotonic ==
    [][last_built_revision # Unset
        => last_built_revision' >= last_built_revision]_vars

\* The watermark has moved past the revision of an earlier build.
C3_Witness ==
    /\ pc = "wait"
    /\ WatermarkWasBehind
    /\ last_attempt # Unset
    /\ last_attempt < last_built_revision
    /\ last_built_revision = current_revision

\* C4: BuildExecutor is invoked only at a current_revision above the one of
\* every earlier invocation, so no revision is built twice.
C4_BuildOncePerRevision ==
    pc = "build" => last_attempt < current_revision

\* A second build is about to start.
C4_Witness ==
    /\ pc = "build"
    /\ last_attempt # Unset
    /\ last_attempt < current_revision

\* C5 as stated: no detected change is missed. When a pass of the loop starts
\* with the working copy above the watermark, update() reports a change only
\* after a further commit, so the claim is that no pass starts that way.
C5_NoChangeMissed ==
    (pc = "reload" /\ last_built_revision # Unset)
        => last_built_revision >= wcRev

\* C6 as stated: the iteration of the first successful sync sets the watermark
\* to current_revision and invokes no build, whether or not the update moved
\* the working copy.
C6_FirstSyncNeverBuilds ==
    first_sync
        => /\ last_built_revision = current_revision
           /\ build_result = "NONE"

\* C6 amended: the iteration of the first successful sync sets the watermark to
\* current_revision; it invokes no build when update() reported no change, and
\* when the update moved the working copy it goes on to the build with no log
\* collected.
C6_FirstSyncBuildsOnlyOnChange ==
    first_sync
        => /\ last_built_revision = current_revision
           /\ fetched = <<>>
           /\ ~ignore_build
           /\ (~has_revision_changed => (pc = "wait" /\ build_result = "NONE"))
           /\ (has_revision_changed /\ pc = "wait" => build_result # "NONE")

C6_Witness ==
    /\ first_sync
    /\ has_revision_changed
    /\ build_result = "SUCCESS"
    /\ pc = "wait"
    /\ last_built_revision = current_revision

\* A log collected in this iteration contains the ignore-build keyword.
IgnoreKeywordScanned ==
    \E i \in 1..Len(logs) : Find(logs[i], config.ignore_build) # -1

\* A log collected in this iteration contains the make-dev-build keyword.
DevKeywordScanned ==
    \E i \in 1..Len(logs) : Find(logs[i], config.make_dev_build) # -1

\* C7 as stated: an iteration that scanned a log with the ignore-build keyword
\* ends with no build invoked, the ignoring-build cue announced and the
\* watermark at current_revision.
C7_IgnoreSkipsAndAdvances ==
    [][(IgnoreKeywordScanned /\ pc # "reload" /\ pc' = "reload")
        => /\ build_result = "NONE"
           /\ "ignoring build" \in cues
           /\ last_built_revision' = current_revision]_vars

\* C8 as stated: whenever a scanned log matches the ignore-build keyword no
\* build executes in that iteration, for every pair of configured keywords.
C8_SkipTakesPrecedence ==
    IgnoreKeywordScanned => build_result = "NONE"

\* C9 as stated: a build of an iteration whose logs carry no make-dev-build
\* keyword runs with the configured build type.
C9_DevBuildIsOneShot ==
    (build_result # "NONE" /\ ~DevKeywordScanned)
        => config.build_type \in DocBuildTypes

\* C10: with the watermark w below the current revision c and a positive cap
\* m, svn log is called for max(w+1, c-m+1) .. c, once each, ascending.
C10_FetchedRange ==
    (pc = "dump" /\ last_built_revision < current_revision
                 /\ config.max_num_relevant_logs > 0)
        => LET first == Max(last_built_revision + 1,
                            current_revision - config.max_num_relevant_logs + 1)
           IN /\ Len(fetched) = current_revision - first + 1
              /\ \A i \in 1..Len(fetched) : fetched[i] = first + i - 1
              /\ \A i \in 1..Len(fetched) : fetched[i] > last_built_revision

\* Watermark 0, current revision 3, cap 10: the logs of 1, 2, 3 in this order.
C10_Witness ==
    /\ pc = "dump"
    /\ last_built_revision = 0
    /\ current_revision = 3
    /\ config.max_num_relevant_logs = DefaultMaxNumRelevantLogs
    /\ fetched = <<1, 2, 3>>

\* C11 as stated: whenever a change is detected and max_num_relevant_logs is
\* positive, the number of revisions whose logs are collected in that iteration
\* is at least 1 and at most max_num_relevant_logs.
C11_CollectedBetweenOneAndCap ==
    (pc = "dump" /\ has_revision_changed /\ config.max_num_relevant_logs > 0)
        => /\ Len(fetched) >= 1
           /\ Len(fetched) <= config.max_num_relevant_logs

\* C11 amended: with a positive cap, a change detected with the watermark set
\* before the iteration collects the logs of at least 1 and at most
\* max_num_relevant_logs revisions; a change detected in the iteration of the
\* first successful sync, which has just set the watermark to current_revision,
\* collects none.
C11_CollectedWithinCap ==
    (pc = "dump" /\ has_revision_changed /\ config.max_num_relevant_logs > 0)
        => /\ Len(fetched) <= config.max_num_relevant_logs
           /\ Len(logs) = Len(fetched)
           /\ (~first_sync => Len(fetched) >= 1)
           /\ (first_sync => Len(fetched) = 0)

\* Three revisions above the watermark and a cap of 2: the cap binds.
C11_Witness ==
    /\ pc = "dump"
    /\ has_revision_changed
    /\ ~first_sync
    /\ current_revision - last_built_revision = 3
    /\ config.max_num_relevant_logs = 2
    /\ Len(fetched) = 2

\* C12 as stated: when the config document sets max_num_relevant_logs to 0, an
\* iteration that detects a change fetches no log, applies no keyword effect
\* and goes to the build with an empty log set.
C12_ZeroCapCollectsNothing ==
    (config.document_max_num_relevant_logs = 0 /\ has_revision_changed
        /\ pc \in {"dump", "build", "completed", "wait"})
        => /\ fetched = <<>>
           /\ logs = <<>>
           /\ ~ignore_build

\* BuildExecutor returned SUCCESS in the step from pc = "build": the step goes
\* to "completed" or, when the log dump or the packaging raised, to "reload".
BuildSucceededInStep ==
    /\ pc = "build"
    /\ (pc' = "completed" \/ pc' = "reload")

\* C13 as stated: after BuildExecutor returns SUCCESS the iteration sets the
\* watermark to current_revision whatever the packaging does; a missing build
\* output directory, a failed log dump, a failed archiver run or a failed
\* rename does not prevent the advance in that iteration.
C13_SuccessAdvancesWhateverPackagingDoes ==
    [][/\ (BuildSucceededInStep /\ pc' = "reload")
            => last_built_revision' = current_revision
       /\ (build_result = "SUCCESS" /\ pc = "wait" /\ pc' = "reload")
            => last_built_revision' = current_revision]_vars

\* C14 as stated: the archive of a successful build carries the revision that
\* was built, current_revision of the iteration, in its name.
C14_ArchiveNamedAfterBuiltRevision ==
    packaging = "archived" => new_build_name.revision = current_revision

\* C15 as stated: when the build output directory is missing, so that the
\* packaging yields no archive, the "build completed" cue is not announced in
\* that iteration.
C15_NoCompletedCueWithoutArchive ==
    packaging = "no build directory" => "build completed" \notin cues

\* The program points at which the iteration works under the held snapshot.
UnderSnapshot ==
    {"cleanup", "update", "logs", "dump", "build", "completed", "wait"}

C18_CleanupWhenDue ==
    [][/\ (pc = "cleanup" /\ pc' \in {"update", "wait"})
            => ((last_cleanup_time' # last_cleanup_time \/ "cleanup failed" \in cues')
                <=> (\/ last_cleanup_time = Unset
                     \/ current_time - last_cleanup_time
                            >= config.cleanup_timeout_in_seconds))
       /\ (last_cleanup_time' # last_cleanup_time)
            => /\ pc = "cleanup" /\ pc' = "update"
               /\ last_cleanup_time' = current_time
               /\ (last_cleanup_time # Unset
                    => last_cleanup_time' - last_cleanup_time
                            >= config.cleanup_timeout_in_seconds)]_vars

\* The second successful cleanup, a cleanup_timeout after the first.
C18_Witness ==
    /\ pc = "update"
    /\ last_built_revision # Unset
    /\ last_cleanup_time = current_time
    /\ last_cleanup_time >= config.cleanup_timeout_in_seconds

\* The step in which except Exception catches an error: from inside the
\* iteration straight to the next pass.
ErrorCaughtInStep ==
    /\ pc \in {"update", "dump", "build"}
    /\ pc' = "reload"

\* C19 as stated: whatever non-interrupt error is raised inside an iteration,
\* the loop goes on at RELOAD_CONFIG, the iteration has invoked no build and
\* has not changed the watermark.
C19_ErrorAbandonsIterationBeforeBuild ==
    [][ErrorCaughtInStep
        => /\ raised' # "none"
           /\ pc # "build"
           /\ ~first_sync
           /\ last_built_revision' = last_built_revision]_vars

\* C20 as stated: an interrupt delivered at any point of an iteration, the
\* config reload included, terminates the loop.
C20_InterruptTerminates ==
    interrupted => pc = "done"

\* C21 as stated: a poll is made only in a pass of the loop, and every pass
\* but the first starts from WAIT after the sleep of the configured poll
\* interval, whatever the iteration before it did: no pass starts straight
\* from a point inside an iteration.
C21_EveryPathWaits ==
    [][(pc # "reload" /\ pc' = "reload")
        => /\ pc = "wait"
           /\ now' = now + config.update_interval_in_seconds]_vars

\* C22: the response of BuildExecutor is SUCCESS for exit code 0, FAILED for
\* every other exit code and UNEXPECTED_ERROR when launching or reading the
\* process raised; a raising process is not caught by the loop as an error:
\* the iteration goes to WAIT as after any unsuccessful build.
C22_BuildClassified ==
    build_run # NoRun
        => /\ (~build_run.raised /\ build_run.exit_code = 0
                    => build_result = "SUCCESS")
           /\ (~build_run.raised /\ build_run.exit_code # 0
                    => build_result = "FAILED")
           /\ (build_run.raised
                    => build_result = "UNEXPECTED_ERROR" /\ pc = "wait")
           /\ raised = "none"

\* The process exited with a code other than 0 and 1.
C22_Witness ==
    /\ ~build_run.raised
    /\ build_run.exit_code = 2
    /\ build_result = "FAILED"
    /\ pc = "wait"

\* C23: with the working copy at before and, after the update command, at
\* after >= before, svn_update reports a change exactly when after > before;
\* a non-zero exit of the update command raises and reports nothing.
C23_ChangedIffRevisionGrew ==
    [][/\ (pc = "update" /\ pc' \in {"logs", "wait"})
            => /\ wcRev' >= wcRev
               /\ has_revision_changed' <=> (wcRev' > wcRev)
               /\ pc' = "logs" <=> has_revision_changed'
       /\ (pc = "update" /\ raised' = "svn update failed")
            => /\ pc' = "reload"
               /\ ~has_revision_changed'
               /\ wcRev' = wcRev]_vars

\* An update that moved the working copy two revisions up.
C23_Witness ==
    /\ pc = "logs"
    /\ has_revision_changed
    /\ ~first_sync
    /\ current_revision = wcRev
    /\ current_revision - last_built_revision >= 2

\* C24 as stated: with override false and an archiver that works, a call of
\* build_compact for a source that exists, made when the final archive of that
\* name is already there, leaves the final archive as it is, does not run the
\* archiver and returns.
C24_ArchivingIdempotent ==
    [][(/\ packager_step' = "build_compact"
        /\ final_archive = "complete"
        /\ compact'.source_exists
        /\ ~compact'.override_zip
        /\ compact'.archiver = "written")
        => /\ final_archive' = final_archive
           /\ compressions' = compressions
           /\ ~compact'.ran_archiver
           /\ ~compact'.raised]_vars

\* C25 as stated: what lies under the final archive name was written by a run
\* of the archiver that reported success.
C25_OnlySuccessfulArchiveRenamed ==
    final_archive \in {"absent", "complete"}

\* The commands in a list of found commands, as a set.
Commands(found) == {found[i] : i \in 1..Len(found)}

\* sub is in text character by character, at some position.
Occurs(text, sub) ==
    \E i \in 1..(Len(text) - Len(sub) + 1) :
        \A j \in 1..Len(sub) : text[i + j - 1] = sub[j]

\* sub is in the concatenation of a and b at a position that starts in a and
\* ends in b.
Straddles(a, b, sub) ==
    \E i \in 1..Len(a) :
        /\ i + Len(sub) - 1 > Len(a)
        /\ i + Len(sub) - 1 <= Len(a) + Len(b)
        /\ \A j \in 1..Len(sub) : (a \o b)[i + j - 1] = sub[j]

\* C26 as stated: scanning the concatenation of A and B matches the same
\* keywords as scanning A and scanning B and taking the union.
C26_ScanOfConcatenationIsUnion ==
    Commands(scan.found_ab) = Commands(scan.found_a) \cup Commands(scan.found_b)

\* C26 amended: scanning the concatenation of A and B matches every keyword
\* that scanning A or scanning B matches and, besides these, exactly the
\* keywords with an occurrence that straddles the junction of A and B; the
\* loop scans the log of each revision on its own and puts the results one
\* after the other.
C26_ScanOfConcatenationAddsStraddling ==
    /\ Commands(scan.found_ab) =
            Commands(scan.found_a) \cup Commands(scan.found_b)
            \cup {k \in Commands(all_commands(scan.config)) : Straddles(scan.a, scan.b, k)}
    /\ scan.found_commands = scan.found_a \o scan.found_b

\* A keyword of two characters, one at the end of A and one at the start of B.
C26_Witness ==
    /\ scan.a = <<"A", "a">>
    /\ scan.b = <<"b", "A">>
    /\ scan.config.make_dev_build = <<"a", "b">>
    /\ scan.config.ignore_build = <<"b">>
    /\ scan.found_a = <<>>
    /\ scan.found_b = <<scan.config.ignore_build>>
    /\ Commands(scan.found_ab) = {scan.config.make_dev_build, scan.config.ignore_build}

\* C27: log_find_commands returns the configured keywords, in the order of
\* all_commands, that are in the log character by character at any position;
\* nothing for an empty log; the config and the watermark of the loop are as
\* they were.
C27_FoundAreLiteralSubstrings ==
    /\ scan.found_a = SelectSeq(all_commands(scan.config),
                                LAMBDA command : Occurs(scan.a, command))
    /\ scan.found_b = SelectSeq(all_commands(scan.config),
                                LAMBDA command : Occurs(scan.b, command))
    /\ (scan.a = <<>> => scan.found_a = <<>>)
    /\ config = EmptyConfig
    /\ last_built_revision = Unset

\* The keyword in the middle of the text, after the same letter in upper case.
C27_Witness ==
    /\ scan.a = <<"A", "a">>
    /\ scan.config.make_dev_build = <<"a">>
    /\ scan.config.ignore_build = <<"b">>
    /\ scan.found_a = <<scan.config.make_dev_build>>

\* C28 as stated: with special_log_keywords disabled, logs that contain the
\* keywords leave the build type as configured and do not skip the build.
C28_DisabledKeywordsHaveNoEffect ==
    ~scan.config.is_enabled
        => /\ scan.build_type = scan.config.build_type
           /\ ~scan.ignore_build

\* C29 as stated: a failure inside the Notifier alters nothing. The iteration
\* that is at the build runs the build, and the iteration that has its archive
\* advances the watermark, whatever the cue before it does.
C29_NotifierFailureAltersNothing ==
    [][/\ (pc = "build" /\ pc' \notin {"build", "done"})
            => last_attempt' = current_revision
       /\ (pc = "completed" /\ pc' \notin {"completed", "done"})
            => /\ last_built_revision' = current_revision
               /\ pc' = "wait"]_vars

\* C30 as stated: at the wait after a successful sync of the same iteration the
\* watermark equals the revision of the working copy, on every path.
C30_WatermarkIsWorkingCopyAtWait ==
    (pc = "wait" /\ current_revision # Unset)
        => /\ current_revision = wcRev
           /\ last_built_revision = current_revision

\* C31 as stated: the editor process is killed only in iterations that invoke
\* BuildExecutor. An iteration that reaches the wait without a build process
\* run (no change, build skipped, cleanup failed) has issued no kill.
C31_KillOnlyWithBuild ==
    (pc = "wait" /\ build_run = NoRun) => editor_kills = 0

\* C32 as stated: archive names are unique per built revision. A build of one
\* revision that is archived never targets the name of the latest archive when
\* that archive was built from another revision.
C32_ArchiveNamesUnique ==
    [][(/\ pc = "build"
        /\ packaging' = "archived"
        /\ archived.revision # Unset
        /\ archived.revision # current_revision)
            => new_build_name' # archived.name]_vars

\* C33 as stated: the "build completed" cue is announced only in iterations in
\* which BuildExecutor was invoked and returned SUCCESS; an iteration that
\* skips the build for the ignore-build keyword announces no such cue.
C33_CompletedCueOnlyAfterSuccess ==
    "build completed" \in cues
        => /\ build_result = "SUCCESS"
           /\ ~ignore_build

\* C34 as stated: in the legacy loop every iteration sleeps the update
\* interval before the next poll; whatever step brings the loop back to the
\* svn update from inside an iteration is the wait, with the clock advanced by
\* the interval.
C34_LegacyEveryIterationSleeps ==
    [][(legacy_pc \notin {"start", "update"} /\ legacy_pc' = "update")
        => /\ legacy_pc = "wait"
           /\ legacy_now' = legacy_now + svn_update_interval_in_seconds]_vars

====
